---- MODULE Spec2Model ----
(***************************************************************************)
(* The mobdev_control system call of linux-mob_dev: a command dispatcher   *)
(* that copies an argument record from the caller and routes to USB        *)
(* detection, ADB file transfer, tethering of a named network interface,   *)
(* a notification flag, and ADB call / media control.                      *)
(*                                                                         *)
(* The repository holds four revisions of the system call:                 *)
(*   RevAdb   src/kernel/mobdev_control.c     lines   1-228                *)
(*   RevMtp   src/kernel/mobdev_control.c     lines 230-569                *)
(*   RevFull  src/unnamed/part_001            (six command codes)          *)
(*   RevStub  src/unnamed/part_002                                         *)
(* The variable rev is the revision that was built; it never changes.      *)
(***************************************************************************)
EXTENDS Integers, Sequences, FiniteSets, TLC

(***************************************************************************)
(* Bounds of the model.                                                    *)
(***************************************************************************)
\* number of concurrent callers of the system call
NumProcs == 2
\* callers try the command codes 0..MaxCmd
MaxCmd == 6
\* how far the count of notification side effects may drift from the flag
\* before callers stop calling
MaxSkew == 2

(***************************************************************************)
(* Program constants.                                                      *)
(***************************************************************************)
MOBDEV_DETECT == 0
MOBDEV_FILE_TRANSFER == 1
MOBDEV_TETHERING == 2
MOBDEV_NOTIFICATIONS == 3
MOBDEV_CALL_CONTROL == 4
MOBDEV_MEDIA_CONTROL == 5

PATH_LEN == 128
IFNAME_LEN == 32

EINVAL == 22
EFAULT == 14
ENODEV == 19
EIO == 5

USB_CLASS_STILL_IMAGE == 6
USB_CLASS_WIRELESS_CONTROLLER == 224
USB_CLASS_VENDOR_SPEC == 255

Revs == {"RevAdb", "RevMtp", "RevFull", "RevStub"}

Procs == 1..NumProcs
Cmds == 0..MaxCmd

(***************************************************************************)
(* Bytes and C strings.  A char array is a sequence of bytes; 0 is NUL.    *)
(***************************************************************************)
\* s followed by NULs, n bytes in all (what memset + strncpy leave in user space)
Pad(s, n) == [i \in 1..n |-> IF i <= Len(s) THEN s[i] ELSE 0]

\* n copies of byte b
Fill(b, n) == [i \in 1..n |-> b]

\* index of the first NUL of mem at or after index from, or 0 when there is none
NulAt(mem, from) ==
    IF \E i \in from..Len(mem) : mem[i] = 0
    THEN CHOOSE i \in from..Len(mem) :
             mem[i] = 0 /\ \A j \in from..(i - 1) : mem[j] # 0
    ELSE 0

\* the C string starting at mem[1]: the bytes before the first NUL
\* (all of mem when no NUL is inside mem)
CStr(mem) ==
    LET z == NulAt(mem, 1)
    IN  IF z = 0 THEN mem ELSE SubSeq(mem, 1, z - 1)

\* strncpy(dst, src, n): copies src up to its NUL or n bytes, pads with NULs
\* to n bytes, and leaves dst[n+1..] as it was
Strncpy(dst, src, n) ==
    LET z == NulAt(src, 1)
        k == IF z = 0 \/ z > n THEN n ELSE z - 1
    IN  [i \in 1..Len(dst) |->
            IF i <= k THEN src[i]
            ELSE IF i <= n THEN 0
            ELSE dst[i]]

\* A char array is kept in the state run-length packed: a sequence of runs
\* [byte, times].  Pack and Unpack convert between the array and its
\* packed form; every string operation works on the unpacked array.
Pack(arr) ==
    LET starts == { i \in 1..Len(arr) : i = 1 \/ arr[i] # arr[i - 1] }
        m == Cardinality(starts)
        nth(k) == CHOOSE i \in starts :
                      Cardinality({ j \in starts : j < i }) = k - 1
    IN  [k \in 1..m |->
            [byte |-> arr[nth(k)],
             times |-> (IF k < m THEN nth(k + 1) ELSE Len(arr) + 1) - nth(k)]]

RECURSIVE Unpack(_)
Unpack(buf) ==
    IF buf = <<>> THEN <<>>
    ELSE Fill(buf[1].byte, buf[1].times) \o Unpack(Tail(buf))

(***************************************************************************)
(* struct mobdev_args                                                      *)
(***************************************************************************)
\* enable and action are ints; path and ifname are packed char arrays
Rec(e, p, i, a) == [enable |-> e, path |-> p, ifname |-> i, action |-> a]

ZeroPath == Pack(Fill(0, PATH_LEN))
ZeroIfname == Pack(Fill(0, IFNAME_LEN))

\* memset(&kargs, 0, sizeof(kargs))
ZeroRec == Rec(0, ZeroPath, ZeroIfname, 0)

\* interface names of the registry (init_net): "usb0" and "eth0"
DevNames == << <<117, 115, 98, 48>>, <<101, 116, 104, 48>> >>
Devs == 1..Len(DevNames)

\* paths a caller supplies: "", "/a", and 128 bytes with no terminator
UserPaths ==
    { ZeroPath, Pack(Pad(<<47, 97>>, PATH_LEN)), Pack(Fill(97, PATH_LEN)) }

\* interface names a caller supplies: "", "usb0", "eth0", "wl" (not
\* registered), and 32 bytes with no terminator
IfnameOf(s) == Pack(Pad(s, IFNAME_LEN))

UserIfnames ==
    { ZeroIfname, IfnameOf(DevNames[1]), IfnameOf(DevNames[2]),
      IfnameOf(<<119, 108>>), Pack(Fill(117, IFNAME_LEN)) }

\* the records a caller passes with command c; the fields c does not read
\* are left zero, as the command line front end leaves them
UserRecs(c) ==
    IF c = MOBDEV_FILE_TRANSFER THEN
        { Rec(e, p, ZeroIfname, 0) : e \in {0, 1, 2}, p \in UserPaths }
    ELSE IF c = MOBDEV_TETHERING THEN
        { Rec(e, ZeroPath, i, 0) : e \in {0, 1}, i \in UserIfnames }
    ELSE IF c = MOBDEV_NOTIFICATIONS THEN
        { Rec(e, ZeroPath, ZeroIfname, 0) : e \in {0, 1} }
    ELSE IF c \in {MOBDEV_CALL_CONTROL, MOBDEV_MEDIA_CONTROL} THEN
        { Rec(0, ZeroPath, ZeroIfname, a) : a \in {0, 1, 2} }
    ELSE { ZeroRec }

\* what the unsigned long arg of the system call is: 0, a pointer that
\* copy_from_user cannot read, or a pointer to a record
UserArgs(c) ==
    { [kind |-> "null", rec |-> ZeroRec], [kind |-> "bad", rec |-> ZeroRec] }
    \cup { [kind |-> "ok", rec |-> r] : r \in UserRecs(c) }

\* what an uninitialized struct mobdev_args on the kernel stack may hold
StackGarbage(c) == UserRecs(c)

\* what an uninitialized byte may hold
UninitBytes == {0, 255}

(***************************************************************************)
(* USB device classifier.  A device is [vid, pid, config], config a        *)
(* sequence of configurations, each a sequence of interfaces, each a       *)
(* sequence of alternate settings [cls, sub, proto].                       *)
(***************************************************************************)
Alt(c, s, p) == [cls |-> c, sub |-> s, proto |-> p]
UsbDev(v, p, cfgs) == [vid |-> v, pid |-> p, config |-> cfgs]

\* mutant of PhoneLikeClass: the vendor-specific case is missing
PhoneLikeClassNoVendor(desc) ==
    desc.cls \in {USB_CLASS_STILL_IMAGE, USB_CLASS_WIRELESS_CONTROLLER}

\* the switch on bInterfaceClass of mobdev_detect_cb
PhoneLikeClass(desc) ==
    desc.cls \in {USB_CLASS_STILL_IMAGE, USB_CLASS_WIRELESS_CONTROLLER,
                  USB_CLASS_VENDOR_SPEC}

\* mutant of MtpClass: a vendor-specific interface counts whatever its
\* subclass and protocol
MtpClassAnyVendor(desc) ==
    \/ desc.cls = USB_CLASS_STILL_IMAGE
    \/ desc.cls = 255

\* the if / else if of mobdev_detect_mtp_cb
MtpClass(desc) ==
    \/ desc.cls = USB_CLASS_STILL_IMAGE
    \/ desc.cls = 255 /\ desc.sub = 255 /\ desc.proto = 0

\* the three nested loops of a callback, from (cfg_index, if_index,
\* alt_index) on: 1 at the first alternate setting that matches, else 0
RECURSIVE ScanDev(_, _, _, _, _)
ScanDev(udev, strict, c, i, a) ==
    IF c > Len(udev.config) THEN 0
    ELSE IF i > Len(udev.config[c]) THEN ScanDev(udev, strict, c + 1, 1, 1)
    ELSE IF a > Len(udev.config[c][i]) THEN ScanDev(udev, strict, c, i + 1, 1)
    ELSE IF (IF strict THEN MtpClass(udev.config[c][i][a])
                       ELSE PhoneLikeClass(udev.config[c][i][a]))
         THEN 1
    ELSE ScanDev(udev, strict, c, i, a + 1)

mobdev_detect_cb(udev) == ScanDev(udev, FALSE, 1, 1, 1)
mobdev_detect_mtp_cb(udev) == ScanDev(udev, TRUE, 1, 1, 1)

\* usb_for_each_dev: calls the callback on each device in turn and stops
\* at the first non-zero return, which it returns; n is the next device
RECURSIVE usb_for_each_dev(_, _, _)
usb_for_each_dev(devs, strict, n) ==
    IF n > Len(devs) THEN 0
    ELSE LET r == IF strict THEN mobdev_detect_mtp_cb(devs[n])
                            ELSE mobdev_detect_cb(devs[n])
         IN  IF r # 0 THEN r ELSE usb_for_each_dev(devs, strict, n + 1)

\* the devices mobdev_detect_cb is called on, by idVendor, as its first
\* pr_info ("Checking device") logs them: usb_for_each_dev calls it on each
\* device in turn and on none after the first non-zero return
RECURSIVE CheckedDevs(_, _)
CheckedDevs(devs, n) ==
    IF n > Len(devs) THEN <<>>
    ELSE <<devs[n].vid>>
             \o (IF mobdev_detect_cb(devs[n]) # 0 THEN <<>>
                 ELSE CheckedDevs(devs, n + 1))

mobdev_detect_phone(devs) == usb_for_each_dev(devs, FALSE, 1)
mobdev_detect_mtp(devs) == usb_for_each_dev(devs, TRUE, 1)

\* attached device sets: an audio device, a still-image phone, an RNDIS
\* phone, a vendor-specific MTP phone, another vendor-specific device
AudioDev == UsbDev(1, 1, << << <<Alt(1, 1, 0)>>, <<Alt(1, 2, 0), Alt(1, 2, 1)>> >> >>)
PtpDev == UsbDev(2, 1, << << <<Alt(8, 6, 80)>>, <<Alt(6, 1, 1)>> >> >>)
RndisDev == UsbDev(3, 1, << << <<Alt(224, 1, 3)>> >> >>)
VendorMtpDev == UsbDev(4, 1, << << <<Alt(1, 1, 0)>> >>, << <<Alt(255, 255, 0)>> >> >>)
VendorDev == UsbDev(5, 1, << << <<Alt(3, 1, 1), Alt(255, 66, 1)>> >> >>)

DeviceSets ==
    { <<>>, <<AudioDev>>, <<AudioDev, PtpDev>>, <<RndisDev>>,
      <<VendorMtpDev, AudioDev>>, <<VendorDev>>,
      <<AudioDev, RndisDev, PtpDev>> }

(***************************************************************************)
(* State.                                                                  *)
(***************************************************************************)
VARIABLES
    rev,                    \* the revision that was built
    flags,                  \* flags[d]: IFF_UP of net_device d
    refcnt,                 \* refcnt[d]: references taken by dev_get_by_name
    rtnl,                   \* holder of the rtnl mutex, 0 when free
    notifications_enabled,  \* the file-scope flag
    skew,                   \* calls of send_fake_notification_to_userspace
                            \* minus Enabled -> Disabled transitions made
    pc,                     \* pc[p]: where caller p is in the system call
    cmd,                    \* cmd[p]: the command code of p's call
    argk,                   \* argk[p]: "null", "bad" or "ok": what arg was
    kargs,                  \* kargs[p]: the kernel copy of the record
    ifname,                 \* ifname[p]: the local buffer of mobdev_tethering
    ndev,                   \* ndev[p]: the net_device found, 0 for NULL
    ret,                    \* ret[p]: the value the call returned
    ev,                     \* ev[p]: what p's call has done so far
    prev                    \* the call that returned last, when it was a
                            \* Tethering that returned 0: its device, the
                            \* state it asked for, its writes of the flag;
                            \* and what the successful Tethering calls so
                            \* far asked for last, for each interface

vars == << rev, flags, refcnt, rtnl, notifications_enabled, skew,
           pc, cmd, argk, kargs, ifname, ndev, ret, ev, prev >>

shared == << flags, refcnt, rtnl, notifications_enabled, skew >>

Ev(o, x) == [op |-> o, a |-> x]

\* the ops of the events of p's call
Ops(p) == { ev[p][k].op : k \in 1..Len(ev[p]) }
\* how many events of p's call have op o
Count(p, o) == Cardinality({ k \in 1..Len(ev[p]) : ev[p][k].op = o })

\* prev when the call that returned last was not a successful Tethering;
\* want[d] is what the last successful Tethering call that resolved to d
\* asked for, and IFF_UP of d at the start when there was none
NoTethering ==
    [ndev |-> 0, up |-> FALSE, flips |-> 0, want |-> [d \in Devs |-> FALSE]]

Init ==
    /\ rev \in Revs
    /\ flags = [d \in Devs |-> FALSE]
    /\ refcnt = [d \in Devs |-> 0]
    /\ rtnl = 0
    /\ notifications_enabled = FALSE
    /\ skew = 0
    /\ pc = [p \in Procs |-> "idle"]
    /\ cmd = [p \in Procs |-> 0]
    /\ argk = [p \in Procs |-> "null"]
    /\ kargs = [p \in Procs |-> ZeroRec]
    /\ ifname = [p \in Procs |-> ZeroIfname]
    /\ ndev = [p \in Procs |-> 0]
    /\ ret = [p \in Procs |-> 0]
    /\ ev = [p \in Procs |-> <<>>]
    /\ prev = NoTethering

(***************************************************************************)
(* The system call: argument copy and the switch on cmd.                   *)
(***************************************************************************)
\* mutant of ArgCmds: the argument is copied for every command code
ArgCmdsAll(r) ==
    Cmds

\* the commands named in the if that guards copy_from_user
ArgCmds(r) ==
    IF r = "RevFull"
    THEN {MOBDEV_FILE_TRANSFER, MOBDEV_TETHERING, MOBDEV_NOTIFICATIONS,
          MOBDEV_CALL_CONTROL, MOBDEV_MEDIA_CONTROL}
    ELSE {MOBDEV_FILE_TRANSFER, MOBDEV_TETHERING, MOBDEV_NOTIFICATIONS}

\* the case labels of the switch, and the function each one calls
CaseCmds(r) ==
    IF r = "RevFull"
    THEN {MOBDEV_FILE_TRANSFER, MOBDEV_TETHERING, MOBDEV_NOTIFICATIONS,
          MOBDEV_CALL_CONTROL, MOBDEV_MEDIA_CONTROL}
    ELSE {MOBDEV_DETECT, MOBDEV_FILE_TRANSFER, MOBDEV_TETHERING,
          MOBDEV_NOTIFICATIONS}

Callee(c) ==
    CASE c = MOBDEV_DETECT -> "detect"
      [] c = MOBDEV_FILE_TRANSFER -> "file_transfer"
      [] c = MOBDEV_TETHERING -> "tethering"
      [] c = MOBDEV_NOTIFICATIONS -> "notifications"
      [] c = MOBDEV_CALL_CONTROL -> "call_control"
      [] OTHER -> "media_control"

\* mutant of CopyFails: the result of copy_from_user is ignored
CopyFailsIgnored(a) ==
    FALSE

\* if (copy_from_user(&kargs, arg, sizeof(kargs))) return -EFAULT;
\* copy_from_user returns non-zero when the source cannot be read
CopyFails(a) ==
    a.kind = "bad"

\* SYSCALL_DEFINE2(mobdev_control): entry of caller p with command c, raw
\* argument a; g is what the uninitialized kargs holds
Enter(p, c, a, g) ==
    LET copies == c \in ArgCmds(rev) /\ a.kind # "null"
        fault == copies /\ CopyFails(a)
        k == IF copies THEN a.rec
             ELSE IF rev = "RevFull" THEN ZeroRec
             ELSE g
        e0 == IF copies THEN <<Ev("copy_from_user", ~fault)>>
              ELSE IF rev = "RevFull" THEN <<Ev("memset", TRUE)>>
              ELSE <<Ev("uninit", TRUE)>>
    IN  /\ cmd' = [cmd EXCEPT ![p] = c]
        /\ argk' = [argk EXCEPT ![p] = a.kind]
        /\ ndev' = [ndev EXCEPT ![p] = 0]
        /\ ifname' = [ifname EXCEPT ![p] = ZeroIfname]
        /\ IF fault THEN
               /\ kargs' = [kargs EXCEPT ![p] = ZeroRec]
               /\ ev' = [ev EXCEPT ![p] = e0]
               /\ ret' = [ret EXCEPT ![p] = -EFAULT]
               /\ pc' = [pc EXCEPT ![p] = "done"]
           ELSE IF c \in CaseCmds(rev) THEN
               /\ kargs' = [kargs EXCEPT ![p] = k]
               /\ ev' = [ev EXCEPT ![p] = Append(e0, Ev("call", Callee(c)))]
               /\ ret' = [ret EXCEPT ![p] = 0]
               /\ pc' = [pc EXCEPT ![p] = Callee(c)]
           ELSE
               /\ kargs' = [kargs EXCEPT ![p] = ZeroRec]
               /\ ev' = [ev EXCEPT ![p] = e0]
               /\ ret' = [ret EXCEPT ![p] = -EINVAL]
               /\ pc' = [pc EXCEPT ![p] = "done"]
        /\ UNCHANGED << rev, shared, prev >>

\* skew is a history counter: no new call starts once it has drifted
\* MaxSkew away from zero (under one caller it stays within 0..1)
Dispatch(p) ==
    /\ pc[p] = "idle"
    /\ skew \in (-MaxSkew)..MaxSkew
    /\ \E c \in Cmds : \E a \in UserArgs(c) : \E g \in StackGarbage(c) :
           Enter(p, c, a, g)

\* the call returns to user space
Finish(p, r, e) ==
    /\ ret' = [ret EXCEPT ![p] = r]
    /\ ev' = [ev EXCEPT ![p] = ev[p] \o e]
    /\ pc' = [pc EXCEPT ![p] = "done"]

\* back in user space; the caller may call again.  h is what prev records.
ReturnTo(p, h) ==
    /\ pc[p] = "done"
    /\ pc' = [pc EXCEPT ![p] = "idle"]
    /\ prev' = h
    /\ cmd' = [cmd EXCEPT ![p] = 0]
    /\ argk' = [argk EXCEPT ![p] = "null"]
    /\ kargs' = [kargs EXCEPT ![p] = ZeroRec]
    /\ ifname' = [ifname EXCEPT ![p] = ZeroIfname]
    /\ ndev' = [ndev EXCEPT ![p] = 0]
    /\ ret' = [ret EXCEPT ![p] = 0]
    /\ ev' = [ev EXCEPT ![p] = <<>>]
    /\ UNCHANGED << rev, shared >>

Return(p) ==
    ReturnTo(p, IF cmd[p] = MOBDEV_TETHERING /\ ret[p] = 0
                THEN [ndev |-> ndev[p], up |-> (kargs[p].enable # 0),
                      flips |-> Count(p, "write_flags"),
                      want |-> [prev.want EXCEPT
                                   ![ndev[p]] = (kargs[p].enable # 0)]]
                ELSE [NoTethering EXCEPT !.want = prev.want])

\* with concurrent callers no call is "the previous call": prev is not kept
ConcReturn(p) ==
    ReturnTo(p, NoTethering)

(***************************************************************************)
(* DETECT                                                                  *)
(***************************************************************************)
\* what a run of mobdev_detect_phone leaves in the log of the call
DetectEvs(devs) ==
    << Ev("usb_for_each_dev", devs),
       Ev("pr_info_checking", CheckedDevs(devs, 1)) >>

Detect(p) ==
    /\ pc[p] = "detect"
    /\ \E devs \in DeviceSets :
           Finish(p, mobdev_detect_phone(devs), DetectEvs(devs))
    /\ UNCHANGED << rev, shared, cmd, argk, kargs, ifname, ndev, prev >>

(***************************************************************************)
(* The usermode helper: call_usermodehelper(argv[0], argv, envp,           *)
(* UMH_WAIT_PROC).                                                         *)
(***************************************************************************)
envp == <<"HOME=/", "PATH=/sbin:/usr/sbin:/bin:/usr/bin">>

\* a 32-bit int in memory, little-endian
LE32(n) == [i \in 1..4 |-> (n \div (256 ^ (i - 1))) % 256]

\* the memory of kargs from the path field on
ArgMem(r, k) ==
    Unpack(k.path) \o Unpack(k.ifname)
        \o (IF r = "RevFull" THEN LE32(k.action) ELSE <<>>)

\* argv[2] = args->path: the string the helper is given is read from the
\* start of the path field up to the first NUL found.  nul is the index of
\* that NUL counted from the start of the field, 0 when there is none
\* inside the record (the read runs on into the kernel stack).
PathArg(r, k) ==
    [str |-> Pack(CStr(ArgMem(r, k))), nul |-> NulAt(ArgMem(r, k), 1)]

NoPath == [str |-> <<>>, nul |-> 1]

Umh(exe, args, patharg) ==
    Ev("call_usermodehelper",
       [exe |-> exe, argv |-> args, envp |-> envp, path |-> patharg])

\* results of call_usermodehelper: exit status 0, exit status 1 (256 as
\* wait status), and -ENOENT when the executable cannot be started
UmhResults == {0, 256, -2}

\* the helper has exited (or could not be started) with result r
UmhDone(p, r) ==
    Finish(p, IF r < 0 THEN -EIO ELSE 0, <<Ev("umh_result", r)>>)

\* the helper process ends: it exits with a status, or it could not be
\* started.  The caller sleeps in call_usermodehelper until then; nothing
\* in the call bounds how long that takes.
HelperExit(p) ==
    /\ pc[p] = "umh_wait"
    /\ \E r \in UmhResults :
           ev' = [ev EXCEPT ![p] = Append(ev[p], Ev("helper_exit", r))]
    /\ pc' = [pc EXCEPT ![p] = "umh_ret"]
    /\ UNCHANGED << rev, shared, cmd, argk, kargs, ifname, ndev, ret, prev >>

\* mutant of UmhReturn: call_usermodehelper does not wait for the helper
\* (as with UMH_NO_WAIT) and returns 0 while it still runs
UmhReturnNoWait(p) ==
    /\ pc[p] \in {"umh_wait", "umh_ret"}
    /\ UmhDone(p, IF pc[p] = "umh_ret" THEN ev[p][Len(ev[p])].a ELSE 0)
    /\ UNCHANGED << rev, shared, cmd, argk, kargs, ifname, ndev, prev >>

\* call_usermodehelper(..., UMH_WAIT_PROC) returns what the helper ended
\* with, and the function returns
UmhReturn(p) ==
    /\ pc[p] = "umh_ret"
    /\ UmhDone(p, ev[p][Len(ev[p])].a)
    /\ UNCHANGED << rev, shared, cmd, argk, kargs, ifname, ndev, prev >>

StartHelper(p, e) ==
    /\ ev' = [ev EXCEPT ![p] = ev[p] \o e]
    /\ pc' = [pc EXCEPT ![p] = "umh_wait"]
    /\ UNCHANGED ret

(***************************************************************************)
(* FILE_TRANSFER                                                           *)
(***************************************************************************)
\* mutant of FtArgv: push is chosen only when enable is 1
FtArgvOne(k) ==
    << IF k.enable = 1 THEN "push" ELSE "pull", "args->path",
       IF k.enable = 1 THEN "/sdcard/" ELSE "/home/user/" >>

FtArgv(k) ==
    << IF k.enable # 0 THEN "push" ELSE "pull", "args->path",
       IF k.enable # 0 THEN "/sdcard/" ELSE "/home/user/" >>

\* mutant of mobdev_file_transfer: the result of the classifier is not
\* tested before the helper is started
mobdev_file_transfer_ungated(p, devs) ==
    CASE rev = "RevAdb" ->
           StartHelper(p, DetectEvs(devs)
                              \o << Umh("/usr/bin/adb", FtArgv(kargs[p]),
                                     PathArg(rev, kargs[p])) >>)
      [] rev = "RevMtp" ->
           Finish(p, 0, <<Ev("usb_for_each_dev", devs)>>)
      [] rev = "RevFull" ->
           StartHelper(p, << Umh("/tmp/adb_wrapper.sh", FtArgv(kargs[p]),
                                 PathArg(rev, kargs[p])) >>)
      [] OTHER ->
           Finish(p, IF Unpack(kargs[p].path)[1] = 0 THEN -EINVAL ELSE 0, <<>>)

mobdev_file_transfer(p, devs) ==
    CASE rev = "RevAdb" ->
           IF mobdev_detect_phone(devs) = 1
           THEN StartHelper(p, DetectEvs(devs)
                                   \o << Umh("/usr/bin/adb", FtArgv(kargs[p]),
                                          PathArg(rev, kargs[p])) >>)
           ELSE Finish(p, -ENODEV, DetectEvs(devs))
      [] rev = "RevMtp" ->
           Finish(p, IF mobdev_detect_mtp(devs) = 1 THEN 0 ELSE -ENODEV,
                  <<Ev("usb_for_each_dev", devs)>>)
      [] rev = "RevFull" ->
           StartHelper(p, << Umh("/tmp/adb_wrapper.sh", FtArgv(kargs[p]),
                                 PathArg(rev, kargs[p])) >>)
      [] OTHER ->
           Finish(p, IF Unpack(kargs[p].path)[1] = 0 THEN -EINVAL ELSE 0, <<>>)

FileTransfer(p) ==
    /\ pc[p] = "file_transfer"
    /\ \E devs \in DeviceSets : mobdev_file_transfer(p, devs)
    /\ UNCHANGED << rev, shared, cmd, argk, kargs, ifname, ndev, prev >>

(***************************************************************************)
(* CALL_CONTROL and MEDIA_CONTROL (part_001 only)                          *)
(***************************************************************************)
mobdev_call_control(p) ==
    StartHelper(p, << Umh("/tmp/adb_wrapper.sh",
                          << "shell", "input", "keyevent",
                             IF kargs[p].action = 1 THEN "KEYCODE_CALL"
                                                    ELSE "KEYCODE_ENDCALL" >>,
                          NoPath) >>)

CallControl(p) ==
    /\ pc[p] = "call_control"
    /\ mobdev_call_control(p)
    /\ UNCHANGED << rev, shared, cmd, argk, kargs, ifname, ndev, prev >>

mobdev_media_control(p) ==
    StartHelper(p, << Umh("/tmp/adb_wrapper.sh",
                          << "shell", "input", "keyevent",
                             IF kargs[p].action = 1 THEN "KEYCODE_VOLUME_UP"
                                                    ELSE "KEYCODE_VOLUME_DOWN" >>,
                          NoPath) >>)

MediaControl(p) ==
    /\ pc[p] = "media_control"
    /\ mobdev_media_control(p)
    /\ UNCHANGED << rev, shared, cmd, argk, kargs, ifname, ndev, prev >>

(***************************************************************************)
(* TETHERING                                                               *)
(***************************************************************************)
\* char ifname[32] after the two statements that fill it; u is what the
\* uninitialized bytes of the array hold
LocalIfname(r, k, u) ==
    IF r = "RevFull"
    THEN \* strncpy(ifname, args->ifname, 31); ifname[31] = '\0';
         Pack([Strncpy(Fill(u, IFNAME_LEN), Unpack(k.ifname), IFNAME_LEN - 1)
                  EXCEPT ![IFNAME_LEN] = 0])
    ELSE \* ifname[0] = '\0'; strncpy(ifname, args->ifname, 31);
         Pack(Strncpy([Fill(u, IFNAME_LEN) EXCEPT ![1] = 0],
                      Unpack(k.ifname), IFNAME_LEN - 1))

TetheringCopyName(p) ==
    /\ pc[p] = "tethering"
    /\ \E u \in UninitBytes :
           ifname' = [ifname EXCEPT ![p] = LocalIfname(rev, kargs[p], u)]
    /\ pc' = [pc EXCEPT ![p] = "t_lock"]
    /\ UNCHANGED << rev, shared, cmd, argk, kargs, ndev, ret, ev, prev >>

\* mutant of rtnl_lock: does not wait for the mutex
rtnl_lock_nowait(p) ==
    rtnl' = p

\* rtnl_lock(): blocks until the mutex is free
rtnl_lock(p) ==
    /\ rtnl = 0
    /\ rtnl' = p

RtnlLock(p) ==
    /\ pc[p] = "t_lock"
    /\ rtnl_lock(p)
    /\ ev' = [ev EXCEPT ![p] = Append(ev[p], Ev("rtnl_lock", TRUE))]
    /\ pc' = [pc EXCEPT ![p] = "t_lookup"]
    /\ UNCHANGED << rev, flags, refcnt, notifications_enabled, skew,
                    cmd, argk, kargs, ifname, ndev, ret, prev >>

\* mutant of dev_get_by_name: falls back to the first device ("usb0") when
\* the name is not registered
dev_get_by_name_default(buf) ==
    CHOOSE r \in { IF NulAt(name, 1) # 0
                      /\ \E d \in Devs : DevNames[d] = CStr(name)
                   THEN CHOOSE d \in Devs : DevNames[d] = CStr(name)
                   ELSE 1 : name \in { Unpack(buf) } } : TRUE

\* dev_get_by_name(&init_net, name): the registered device whose name is the
\* C string at name, or 0 (NULL).  A buffer with no NUL is read past its
\* end; registered names are shorter than the buffer, so none matches.
\* (name is the unpacked buffer, bound once.)
dev_get_by_name(buf) ==
    CHOOSE r \in { IF NulAt(name, 1) # 0
                      /\ \E d \in Devs : DevNames[d] = CStr(name)
                   THEN CHOOSE d \in Devs : DevNames[d] = CStr(name)
                   ELSE 0 : name \in { Unpack(buf) } } : TRUE

DevGetByName(p) ==
    /\ pc[p] = "t_lookup"
    /\ \E d \in { dev_get_by_name(ifname[p]) } :
       \E z \in { NulAt(name, 1) : name \in { Unpack(ifname[p]) } } :
           /\ ndev' = [ndev EXCEPT ![p] = d]
           /\ refcnt' = IF d = 0 THEN refcnt
                        ELSE [refcnt EXCEPT ![d] = refcnt[d] + 1]
           /\ ev' = [ev EXCEPT ![p] =
                        Append(ev[p], Ev("dev_get_by_name",
                                         [dev |-> d, nul |-> z]))]
           /\ pc' = [pc EXCEPT ![p] = IF d = 0 THEN "t_notfound" ELSE "t_check"]
    /\ UNCHANGED << rev, flags, rtnl, notifications_enabled, skew,
                    cmd, argk, kargs, ifname, ret, prev >>

\* mutant of rtnl_unlock: the mutex stays with its holder
rtnl_unlock_lost(p) ==
    rtnl' = rtnl

\* rtnl_unlock()
rtnl_unlock(p) ==
    rtnl' = 0

\* mutant of TetheringNotFound: the error path returns with the mutex held
TetheringNotFoundNoUnlock(p) ==
    /\ pc[p] = "t_notfound"
    /\ Finish(p, -ENODEV, <<>>)
    /\ UNCHANGED << rev, shared, cmd, argk, kargs, ifname, ndev, prev >>

\* if (!ndev) { pr_err(...); rtnl_unlock(); return -ENODEV; }
TetheringNotFound(p) ==
    /\ pc[p] = "t_notfound"
    /\ rtnl_unlock(p)
    /\ Finish(p, -ENODEV, <<Ev("rtnl_unlock", TRUE)>>)
    /\ UNCHANGED << rev, flags, refcnt, notifications_enabled, skew,
                    cmd, argk, kargs, ifname, ndev, prev >>

\* mutant of NeedsFlip: the test of IFF_UP is inverted, the flag is written
\* when it already has the requested value
NeedsFlipInverted(enable, up) ==
    IF enable # 0 THEN up ELSE ~up

\* mutant of NeedsFlip: the flag is written whatever its value
NeedsFlipAlways(enable, up) ==
    TRUE

\* the test of ndev->flags & IFF_UP against args->enable: whether the flag
\* is to be written
NeedsFlip(enable, up) ==
    IF enable # 0 THEN ~up ELSE up

TetheringCheck(p) ==
    /\ pc[p] = "t_check"
    /\ ev' = [ev EXCEPT ![p] = Append(ev[p], Ev("read_flags", ndev[p]))]
    /\ pc' = [pc EXCEPT ![p] =
                 IF NeedsFlip(kargs[p].enable, flags[ndev[p]])
                 THEN "t_flip" ELSE "t_put"]
    /\ UNCHANGED << rev, shared, cmd, argk, kargs, ifname, ndev, ret, prev >>

\* mutant of TetheringFlip: the write of args->enable also lands in
\* notifications_enabled
TetheringFlipBoth(p) ==
    /\ pc[p] = "t_flip"
    /\ flags' = [flags EXCEPT ![ndev[p]] = (kargs[p].enable # 0)]
    /\ notifications_enabled' = (kargs[p].enable # 0)
    /\ ev' = [ev EXCEPT ![p] =
                 ev[p] \o << Ev("pr_info_bringing", kargs[p].enable # 0),
                             Ev("write_flags", ndev[p]) >>]
    /\ pc' = [pc EXCEPT ![p] = "t_put"]
    /\ UNCHANGED << rev, refcnt, rtnl, skew,
                    cmd, argk, kargs, ifname, ndev, ret, prev >>

\* mutant of TetheringFlip: IFF_UP is written on every registered interface
TetheringFlipAll(p) ==
    /\ pc[p] = "t_flip"
    /\ flags' = [d \in Devs |-> (kargs[p].enable # 0)]
    /\ ev' = [ev EXCEPT ![p] =
                 ev[p] \o << Ev("pr_info_bringing", kargs[p].enable # 0),
                             Ev("write_flags", ndev[p]) >>]
    /\ pc' = [pc EXCEPT ![p] = "t_put"]
    /\ UNCHANGED << rev, refcnt, rtnl, notifications_enabled, skew,
                    cmd, argk, kargs, ifname, ndev, ret, prev >>

\* mutant of TetheringFlip: the interface is brought up or down by a helper
\* process started under the rtnl mutex
TetheringFlipViaHelper(p) ==
    /\ pc[p] = "t_flip"
    /\ StartHelper(p, << Umh("/sbin/ip", <<"link", "set">>, NoPath) >>)
    /\ UNCHANGED << rev, shared, cmd, argk, kargs, ifname, ndev, prev >>

\* pr_info("Bringing '%s' up/down"); ndev->flags |= IFF_UP or &= ~IFF_UP
TetheringFlip(p) ==
    /\ pc[p] = "t_flip"
    /\ flags' = [flags EXCEPT ![ndev[p]] = (kargs[p].enable # 0)]
    /\ ev' = [ev EXCEPT ![p] =
                 ev[p] \o << Ev("pr_info_bringing", kargs[p].enable # 0),
                             Ev("write_flags", ndev[p]) >>]
    /\ pc' = [pc EXCEPT ![p] = "t_put"]
    /\ UNCHANGED << rev, refcnt, rtnl, notifications_enabled, skew,
                    cmd, argk, kargs, ifname, ndev, ret, prev >>

\* dev_put(ndev)
dev_put(d) ==
    refcnt' = [refcnt EXCEPT ![d] = refcnt[d] - 1]

\* dev_put(ndev); rtnl_unlock(); return 0;
TetheringPutUnlock(p) ==
    /\ pc[p] = "t_put"
    /\ dev_put(ndev[p])
    /\ rtnl_unlock(p)
    /\ Finish(p, 0, <<Ev("dev_put", ndev[p]), Ev("rtnl_unlock", TRUE)>>)
    /\ UNCHANGED << rev, flags, notifications_enabled, skew,
                    cmd, argk, kargs, ifname, ndev, prev >>

(***************************************************************************)
(* NOTIFICATIONS                                                           *)
(***************************************************************************)
\* mutant of NotifBranch: the requested state is not compared with the flag
NotifBranchNoCompare(enable, enabled) ==
    IF enable # 0 THEN "n_enable" ELSE "n_disable"

\* the if / else if of mobdev_notifications reads notifications_enabled and
\* picks a branch; no lock is taken
NotifBranch(enable, enabled) ==
    IF enable # 0 /\ ~enabled THEN "n_enable"
    ELSE IF enable = 0 /\ enabled THEN "n_disable"
    ELSE "n_nochange"

\* part_001: only logs what was asked
NotificationsStateless(p) ==
    /\ rev = "RevFull"
    /\ pc[p] = "notifications"
    /\ Finish(p, 0, <<Ev("pr_info_notifications", kargs[p].enable # 0)>>)
    /\ UNCHANGED << rev, shared, cmd, argk, kargs, ifname, ndev, prev >>

NotificationsRead(p) ==
    /\ rev # "RevFull"
    /\ pc[p] = "notifications"
    /\ pc' = [pc EXCEPT ![p] = NotifBranch(kargs[p].enable, notifications_enabled)]
    /\ ev' = [ev EXCEPT ![p] =
                 Append(ev[p], Ev("read_notifications_enabled",
                                  notifications_enabled))]
    /\ UNCHANGED << rev, shared, cmd, argk, kargs, ifname, ndev, ret, prev >>

\* notifications_enabled = true;
NotificationsEnable(p) ==
    /\ pc[p] = "n_enable"
    /\ notifications_enabled' = TRUE
    /\ ev' = [ev EXCEPT ![p] = Append(ev[p], Ev("write_notifications_enabled", TRUE))]
    /\ pc' = [pc EXCEPT ![p] = "n_send"]
    /\ UNCHANGED << rev, flags, refcnt, rtnl, skew,
                    cmd, argk, kargs, ifname, ndev, ret, prev >>

\* send_fake_notification_to_userspace(); return 0;
NotificationsSend(p) ==
    /\ pc[p] = "n_send"
    /\ skew' = skew + 1
    /\ Finish(p, 0, <<Ev("send_fake_notification_to_userspace", TRUE)>>)
    /\ UNCHANGED << rev, flags, refcnt, rtnl, notifications_enabled,
                    cmd, argk, kargs, ifname, ndev, prev >>

\* notifications_enabled = false; return 0;
NotificationsDisable(p) ==
    /\ pc[p] = "n_disable"
    /\ notifications_enabled' = FALSE
    /\ skew' = skew - 1
    /\ Finish(p, 0, <<Ev("write_notifications_enabled", FALSE)>>)
    /\ UNCHANGED << rev, flags, refcnt, rtnl,
                    cmd, argk, kargs, ifname, ndev, prev >>

\* the else branch: "No change"; return 0;
NotificationsNoChange(p) ==
    /\ pc[p] = "n_nochange"
    /\ Finish(p, 0, <<>>)
    /\ UNCHANGED << rev, shared, cmd, argk, kargs, ifname, ndev, prev >>

(***************************************************************************)
(* Specifications.                                                         *)
(***************************************************************************)
Step(p) ==
    \/ Dispatch(p)
    \/ Return(p)
    \/ Detect(p)
    \/ FileTransfer(p)
    \/ HelperExit(p)
    \/ UmhReturn(p)
    \/ CallControl(p)
    \/ MediaControl(p)
    \/ TetheringCopyName(p)
    \/ RtnlLock(p)
    \/ DevGetByName(p)
    \/ TetheringNotFound(p)
    \/ TetheringCheck(p)
    \/ TetheringFlip(p)
    \/ TetheringPutUnlock(p)
    \/ NotificationsStateless(p)
    \/ NotificationsRead(p)
    \/ NotificationsEnable(p)
    \/ NotificationsSend(p)
    \/ NotificationsDisable(p)
    \/ NotificationsNoChange(p)

\* one caller: calls follow one another
Next == Step(1)

Spec == Init /\ [][Next]_vars

(***************************************************************************)
(* Concurrent callers.  The calls that touch shared state run interleaved, *)
(* one step at a time, with the arguments that decide their branches.      *)
(* Tethering shares the interface registry and the rtnl mutex;             *)
(* Notifications shares notifications_enabled; the two share nothing with  *)
(* each other, so each is explored on its own.                             *)
(***************************************************************************)
ConcArgs(c) ==
    IF c = MOBDEV_TETHERING THEN
        { [kind |-> "ok", rec |-> Rec(e, ZeroPath, i, 0)] :
              e \in {0, 1},
              i \in { IfnameOf(DevNames[1]), IfnameOf(<<119, 108>>) } }
    ELSE
        { [kind |-> "ok", rec |-> r] : r \in UserRecs(c) }

ConcDispatch(p, c) ==
    /\ pc[p] = "idle"
    /\ skew \in (-MaxSkew)..MaxSkew
    /\ \E a \in ConcArgs(c) : Enter(p, c, a, a.rec)

TethStep(p) ==
    \/ ConcDispatch(p, MOBDEV_TETHERING)
    \/ ConcReturn(p)
    \/ TetheringCopyName(p)
    \/ RtnlLock(p)
    \/ DevGetByName(p)
    \/ TetheringNotFound(p)
    \/ TetheringCheck(p)
    \/ TetheringFlip(p)
    \/ TetheringPutUnlock(p)

TethNext == \E p \in Procs : TethStep(p)

TethSpec == Init /\ [][TethNext]_vars

NotifStep(p) ==
    \/ ConcDispatch(p, MOBDEV_NOTIFICATIONS)
    \/ ConcReturn(p)
    \/ NotificationsStateless(p)
    \/ NotificationsRead(p)
    \/ NotificationsEnable(p)
    \/ NotificationsSend(p)
    \/ NotificationsDisable(p)
    \/ NotificationsNoChange(p)

NotifNext == \E p \in Procs : NotifStep(p)

NotifSpec == Init /\ [][NotifNext]_vars

(***************************************************************************)
(* Concurrent callers of the helper-backed commands.  A helper may never   *)
(* exit, so HelperExit is not fair; once it has exited the completion      *)
(* wakes the caller sleeping in call_usermodehelper, so UmhReturn is.      *)
(***************************************************************************)
\* one record for each command: push of "/a", answer, volume up (which record
\* it is does not decide how the call waits)
HelpArgs(c) ==
    IF c = MOBDEV_FILE_TRANSFER THEN
        { [kind |-> "ok", rec |-> Rec(1, Pack(Pad(<<47, 97>>, PATH_LEN)),
                                      ZeroIfname, 0)] }
    ELSE
        { [kind |-> "ok", rec |-> Rec(0, ZeroPath, ZeroIfname, 1)] }

HelpDispatch(p) ==
    /\ pc[p] = "idle"
    /\ skew \in (-MaxSkew)..MaxSkew
    /\ \E c \in {MOBDEV_FILE_TRANSFER, MOBDEV_CALL_CONTROL,
                  MOBDEV_MEDIA_CONTROL} :
           \E a \in HelpArgs(c) : Enter(p, c, a, a.rec)

HelpStep(p) ==
    \/ HelpDispatch(p)
    \/ ConcReturn(p)
    \/ FileTransfer(p)
    \/ CallControl(p)
    \/ MediaControl(p)
    \/ HelperExit(p)
    \/ UmhReturn(p)

HelpNext == \E p \in Procs : HelpStep(p)

HelpSpec ==
    Init /\ [][HelpNext]_vars /\ \A p \in Procs : WF_vars(UmhReturn(p))

(***************************************************************************)
(* A helper-backed call next to Tethering and Notifications calls: caller   *)
(* 1 calls FileTransfer, with no device or a still-image phone attached;   *)
(* caller 2 calls Tethering or Notifications; any further caller calls     *)
(* Tethering.                                                              *)
(***************************************************************************)
\* the Tethering calls of concurrent callers: each call brings "usb0" up
\* or names the unregistered "wl", so that both the path through dev_put
\* and the error path release the mutex
LockArgs ==
    { [kind |-> "ok", rec |-> Rec(1, ZeroPath, IfnameOf(DevNames[1]), 0)],
      [kind |-> "ok", rec |-> Rec(0, ZeroPath, IfnameOf(<<119, 108>>), 0)] }

MixArgs(c) ==
    IF c = MOBDEV_FILE_TRANSFER THEN HelpArgs(c)
    ELSE IF c = MOBDEV_TETHERING THEN LockArgs
    ELSE
        { [kind |-> "ok", rec |-> Rec(e, ZeroPath, ZeroIfname, 0)] :
              e \in {0, 1} }

MixCmds(p) ==
    IF p = 1 THEN {MOBDEV_FILE_TRANSFER}
    ELSE IF p = 2 THEN {MOBDEV_TETHERING, MOBDEV_NOTIFICATIONS}
    ELSE {MOBDEV_TETHERING}

MixDispatch(p) ==
    /\ pc[p] = "idle"
    /\ skew \in (-MaxSkew)..MaxSkew
    /\ \E c \in MixCmds(p) : \E a \in MixArgs(c) : Enter(p, c, a, a.rec)

MixDeviceSets == { <<>>, <<PtpDev>> }

MixFileTransfer(p) ==
    /\ pc[p] = "file_transfer"
    /\ \E devs \in MixDeviceSets : mobdev_file_transfer(p, devs)
    /\ UNCHANGED << rev, shared, cmd, argk, kargs, ifname, ndev, prev >>

MixStep(p) ==
    \/ MixDispatch(p)
    \/ ConcReturn(p)
    \/ MixFileTransfer(p)
    \/ HelperExit(p)
    \/ UmhReturn(p)
    \/ TetheringCopyName(p)
    \/ RtnlLock(p)
    \/ DevGetByName(p)
    \/ TetheringNotFound(p)
    \/ TetheringCheck(p)
    \/ TetheringFlip(p)
    \/ TetheringPutUnlock(p)
    \/ NotificationsStateless(p)
    \/ NotificationsRead(p)
    \/ NotificationsEnable(p)
    \/ NotificationsSend(p)
    \/ NotificationsDisable(p)
    \/ NotificationsNoChange(p)

MixNext == \E p \in Procs : MixStep(p)

MixSpec == Init /\ [][MixNext]_vars

(***************************************************************************)
(* Fair scheduling.  A call that is inside the system call is a runnable   *)
(* kernel thread and the scheduler runs it, so the steps of a call are     *)
(* weakly fair.  A thread that finds the rtnl mutex taken sleeps on the    *)
(* FIFO wait list of the mutex, and an unlock hands the mutex to the first *)
(* waiter, so a caller for which the mutex is free again and again gets    *)
(* it: RtnlLock is strongly fair.  Nothing makes a user process call, and  *)
(* nothing makes a helper process exit.  The conditions start where a      *)
(* Tethering call requests the mutex; the copy of the name before it       *)
(* takes no part in the locking.                                           *)
(***************************************************************************)
TetheringStep(p) ==
    \/ RtnlLock(p)
    \/ DevGetByName(p)
    \/ TetheringNotFound(p)
    \/ TetheringCheck(p)
    \/ TetheringFlip(p)
    \/ TetheringPutUnlock(p)

NotificationsStep(p) ==
    \/ NotificationsStateless(p)
    \/ NotificationsRead(p)
    \/ NotificationsEnable(p)
    \/ NotificationsSend(p)
    \/ NotificationsDisable(p)
    \/ NotificationsNoChange(p)

Fairness ==
    \A p \in Procs :
        /\ WF_vars(TetheringStep(p))
        /\ SF_vars(RtnlLock(p))
        /\ WF_vars(NotificationsStep(p))

\* Tethering callers contending for the mutex
LockDispatch(p) ==
    /\ pc[p] = "idle"
    /\ \E a \in LockArgs : Enter(p, MOBDEV_TETHERING, a, a.rec)

LockStep(p) ==
    \/ LockDispatch(p)
    \/ ConcReturn(p)
    \/ TetheringCopyName(p)
    \/ RtnlLock(p)
    \/ DevGetByName(p)
    \/ TetheringNotFound(p)
    \/ TetheringCheck(p)
    \/ TetheringFlip(p)
    \/ TetheringPutUnlock(p)

LockNext == \E p \in Procs : LockStep(p)

LockFairSpec == Init /\ [][LockNext]_vars /\ Fairness

MixFairSpec == MixSpec /\ Fairness

(***************************************************************************)
(* Properties.                                                             *)
(***************************************************************************)
\* the closed set of commands: Detect .. MediaControl
ClosedCmds == MOBDEV_DETECT..MOBDEV_MEDIA_CONTROL

\* caller p enters the system call in this step
Enters(p) == pc[p] = "idle" /\ pc'[p] # "idle"

\* p is inside a call or has just returned from it
InCall(p) == pc[p] # "idle"

\* the events of p's call whose op is o
EvsOf(p, o) == { k \in 1..Len(ev[p]) : ev[p][k].op = o }

\* C1: a call with a command code outside {Detect .. MediaControl} returns
\* -EINVAL at once; it starts no helper, does not copy the argument, does
\* not take the rtnl mutex, and leaves notifications_enabled and every
\* IFF_UP flag (and the rest of the shared state) as they were.
C1_UnknownCommandRejected ==
    [][\A p \in Procs :
          (Enters(p) /\ cmd'[p] \notin ClosedCmds) =>
              /\ pc'[p] = "done"
              /\ ret'[p] = -EINVAL
              /\ \A k \in 1..Len(ev'[p]) :
                     ev'[p][k].op \notin {"call_usermodehelper", "copy_from_user",
                                          "rtnl_lock", "call"}
              /\ rtnl' = rtnl
              /\ notifications_enabled' = notifications_enabled
              /\ flags' = flags
              /\ UNCHANGED shared]_vars

\* C1 witness: a call with code 6 and a readable argument record has
\* returned -EINVAL
C1_Witness ==
    \E p \in Procs :
        /\ pc[p] = "done" /\ cmd[p] \notin ClosedCmds /\ argk[p] = "ok"
        /\ ret[p] = -EINVAL

\* C2 (as claimed): whenever no Notifications call is under way, the
\* number of notify side effects minus the number of disable transitions is
\* 1 when notifications_enabled is set and 0 when it is clear; this is what
\* serialized transitions would give.
C2_FlagMatchesSideEffects ==
    (\A p \in Procs : pc[p] \in {"idle", "done"}) =>
        skew = (IF notifications_enabled THEN 1 ELSE 0)

\* caller p is between rtnl_lock() and rtnl_unlock()
InSection(p) ==
    pc[p] \in {"t_lookup", "t_notfound", "t_check", "t_flip", "t_put"}

\* C3: the rtnl mutex is held across lookup, read and write of the flag:
\* at most one Tethering call is between rtnl_lock and rtnl_unlock and it is
\* the holder; the lookup and the read happen under the mutex; the flag is
\* written only by the holder; and when the holder releases the mutex the
\* flag of the interface it found has the value it asked for (so the flag
\* is the value asked for by the call that held the mutex last).
C3_LookupThenMutateExclusive ==
    [][/\ \A p, q \in Procs : (InSection(p) /\ InSection(q)) => p = q
       /\ \A p \in Procs : InSection(p) => rtnl = p
       /\ \A p \in Procs : (ndev'[p] # ndev[p] /\ pc[p] # "done") => rtnl = p
       /\ flags' # flags =>
              \E p \in Procs :
                  /\ rtnl = p /\ rtnl' = p /\ pc[p] = "t_flip"
                  /\ \A d \in Devs : d # ndev[p] => flags'[d] = flags[d]
       /\ \A p \in Procs :
              (rtnl = p /\ rtnl' # p /\ ndev[p] # 0) =>
                  flags'[ndev[p]] = (kargs[p].enable # 0)]_vars

\* C3 witness: one call is about to write the flag under the mutex while
\* another call, asking for the opposite state of the same interface,
\* waits for the mutex
C3_Witness ==
    \E p, q \in Procs :
        /\ pc[p] = "t_flip" /\ pc[q] = "t_lock"
        /\ kargs[p].ifname = kargs[q].ifname
        /\ kargs[p].enable # kargs[q].enable

\* the registered device whose name the ifname field holds, 0 when none
FieldDev(field) ==
    IF \E d \in Devs : IfnameOf(DevNames[d]) = field
    THEN CHOOSE d \in Devs : IfnameOf(DevNames[d]) = field
    ELSE 0

\* C4: when a Tethering call on a registered name returns right after a
\* successful Tethering call on the same interface with the same enable
\* value, the second call has not written the flag, has logged no
\* "Bringing up/down" event and returns 0; the two calls together wrote the
\* flag at most once, and the flag has the value asked for.
C4_TetheringIdempotent ==
    \A p \in Procs :
        ( /\ pc[p] = "done" /\ cmd[p] = MOBDEV_TETHERING
          /\ FieldDev(kargs[p].ifname) # 0
          /\ prev.ndev = FieldDev(kargs[p].ifname)
          /\ prev.up = (kargs[p].enable # 0) ) =>
            /\ ret[p] = 0
            /\ Count(p, "write_flags") = 0
            /\ Count(p, "pr_info_bringing") = 0
            /\ prev.flips + Count(p, "write_flags") <= 1
            /\ flags[prev.ndev] = prev.up

\* C4 witness: the second of two Tethering(down) calls on one interface has
\* returned, the first having brought the interface down
C4_Witness ==
    \E p \in Procs :
        /\ pc[p] = "done" /\ cmd[p] = MOBDEV_TETHERING /\ ret[p] = 0
        /\ prev.ndev # 0 /\ prev.ndev = FieldDev(kargs[p].ifname)
        /\ kargs[p].enable = 0 /\ ~prev.up /\ prev.flips = 1

\* C5: a Tethering call that has returned, with 0 or with -ENODEV, does not
\* hold the rtnl mutex and holds no reference: each dev_get_by_name that
\* found a device is matched by one dev_put, and each rtnl_lock by one
\* rtnl_unlock.  When no call is inside the section the mutex is free and
\* no interface is referenced.
C5_ReleasedOnEveryPath ==
    /\ \A p \in Procs :
           (pc[p] = "done" /\ cmd[p] = MOBDEV_TETHERING) =>
               /\ ret[p] \in {0, -ENODEV}
               /\ rtnl # p
               /\ Count(p, "rtnl_lock") = 1
               /\ Count(p, "rtnl_unlock") = 1
               /\ Count(p, "dev_put")
                      = Cardinality({ k \in EvsOf(p, "dev_get_by_name") :
                                          ev[p][k].a.dev # 0 })
    /\ (\A p \in Procs : ~InSection(p)) =>
           (rtnl = 0 /\ \A d \in Devs : refcnt[d] = 0)

\* C5 witness: one call has returned -ENODEV and another has returned 0
\* after one lookup and one dev_put
C5_Witness ==
    \E p, q \in Procs :
        /\ pc[p] = "done" /\ ret[p] = -ENODEV
        /\ pc[q] = "done" /\ ret[q] = 0 /\ Count(q, "dev_put") = 1

\* C6: a Tethering call whose ifname is not a registered name never changes
\* a flag or a reference count, never reads or writes a flag, and returns
\* -ENODEV.
C6_InterfaceNotFound ==
    [][\A p \in Procs :
          ( /\ InCall(p) /\ cmd[p] = MOBDEV_TETHERING /\ pc[p] # "done"
            /\ FieldDev(kargs[p].ifname) = 0 ) =>
              /\ flags' = flags
              /\ refcnt' = refcnt
              /\ \A k \in 1..Len(ev'[p]) :
                     ev'[p][k].op \notin {"read_flags", "write_flags"}
              /\ pc'[p] = "done" => ret'[p] = -ENODEV]_vars

\* C6 witness: a Tethering call naming "wl" has returned -ENODEV while
\* "usb0" is up
C6_Witness ==
    \E p \in Procs :
        /\ pc[p] = "done" /\ cmd[p] = MOBDEV_TETHERING /\ argk[p] = "ok"
        /\ kargs[p].ifname = IfnameOf(<<119, 108>>)
        /\ ret[p] = -ENODEV /\ flags[1]

\* the commands for which the revision copies an argument record
TakesArg(r) ==
    IF r = "RevFull" THEN MOBDEV_FILE_TRANSFER..MOBDEV_MEDIA_CONTROL
    ELSE MOBDEV_FILE_TRANSFER..MOBDEV_NOTIFICATIONS

\* C7: when the copy of the argument record fails (a command that takes an
\* argument, called with a pointer that cannot be read), the call returns
\* -EFAULT at once: no component is called, no helper is started, the rtnl
\* mutex is not taken, and the shared state is unchanged.
C7_BoundaryFault ==
    [][\A p \in Procs :
          (Enters(p) /\ argk'[p] = "bad" /\ cmd'[p] \in TakesArg(rev)) =>
              /\ pc'[p] = "done"
              /\ ret'[p] = -EFAULT
              /\ ev'[p] = <<Ev("copy_from_user", FALSE)>>
              /\ UNCHANGED shared]_vars

\* C7 witness: MediaControl with an unreadable argument has returned -EFAULT
C7_Witness ==
    \E p \in Procs :
        /\ pc[p] = "done" /\ cmd[p] = MOBDEV_MEDIA_CONTROL /\ argk[p] = "bad"
        /\ ret[p] = -EFAULT

\* C8 (as claimed): for every record copied from the caller, the path
\* handed to the helper by FileTransfer is a terminated string inside the
\* 128-byte field: its NUL is one of the 128 bytes of path.
C8_PathTerminatedInField ==
    \A p \in Procs :
        \A k \in EvsOf(p, "call_usermodehelper") :
            (cmd[p] = MOBDEV_FILE_TRANSFER /\ argk[p] = "ok") =>
                ev[p][k].a.path.nul \in 1..PATH_LEN

\* C9 (as claimed): a command that takes an argument, dispatched with a
\* null argument, runs its component on the zero-valued record and never
\* on uninitialized contents.
C9_NullArgIsZeroRecord ==
    \A p \in Procs :
        ( /\ InCall(p) /\ argk[p] = "null"
          /\ cmd[p] \in MOBDEV_FILE_TRANSFER..MOBDEV_MEDIA_CONTROL
          /\ Count(p, "call") = 1 ) =>
            /\ kargs[p] = ZeroRec
            /\ Count(p, "uninit") = 0

\* C10 (as claimed): every command of the closed set whose argument
\* marshals (the call did not return -EFAULT) is routed to exactly one
\* component.
C10_EveryCommandRouted ==
    \A p \in Procs :
        ( /\ pc[p] = "done" /\ cmd[p] \in ClosedCmds
          /\ Count(p, "copy_from_user") = 0
               \/ \A k \in EvsOf(p, "copy_from_user") : ev[p][k].a ) =>
            Count(p, "call") = 1

\* the commands that start the usermode helper
HelperCmds == {MOBDEV_FILE_TRANSFER, MOBDEV_CALL_CONTROL, MOBDEV_MEDIA_CONTROL}

\* the result of call_usermodehelper in p's call, when the helper has
\* exited or could not be started
HelperResults(p) == { ev[p][k].a : k \in EvsOf(p, "umh_result") }

\* C11 (as claimed): no step of a FileTransfer, CallControl or MediaControl
\* call changes notifications_enabled or an IFF_UP flag, and when the helper
\* could not be started or exited with a non-zero status the call returns
\* -EIO.
C11_HelperFailurePropagates ==
    [][\A p \in Procs :
          ( /\ InCall(p) /\ pc[p] # "done" /\ cmd[p] \in HelperCmds
            /\ argk[p] = "ok" ) =>
              /\ notifications_enabled' = notifications_enabled
              /\ flags' = flags
              /\ (pc'[p] = "done" /\ \E r \in HelperResults(p)' : r # 0) =>
                     ret'[p] = -EIO]_vars

\* the side effects of a transition of the notification state
NotifEffects == {"write_notifications_enabled",
                 "send_fake_notification_to_userspace"}

\* C12: while a Notifications call that has not written the flag finds the
\* flag equal to the state it asks for, its steps leave the flag as it is,
\* make no transition (no send_fake_notification_to_userspace, no disable),
\* and the call returns 0; this holds after any sequence of earlier calls.
C12_NoopOnSameState ==
    [][\A p \in Procs :
          ( /\ InCall(p) /\ pc[p] # "done" /\ cmd[p] = MOBDEV_NOTIFICATIONS
            /\ Count(p, "write_notifications_enabled") = 0
            /\ (kargs[p].enable # 0) = notifications_enabled ) =>
              /\ notifications_enabled' = notifications_enabled
              /\ skew' = skew
              /\ \A k \in 1..Len(ev'[p]) : ev'[p][k].op \notin NotifEffects
              /\ pc'[p] = "done" => ret'[p] = 0]_vars

\* C12 witness: a Notifications(enable = 1) call has returned having read
\* the flag as already set by an earlier call, and has written nothing
C12_Witness ==
    \E p \in Procs :
        /\ pc[p] = "done" /\ cmd[p] = MOBDEV_NOTIFICATIONS /\ argk[p] = "ok"
        /\ kargs[p].enable = 1 /\ notifications_enabled /\ skew = 1
        /\ \E k \in EvsOf(p, "read_notifications_enabled") : ev[p][k].a
        /\ \A k \in 1..Len(ev[p]) : ev[p][k].op \notin NotifEffects

\* the value of notifications_enabled when p's Notifications call began:
\* what the call read, or, when it read nothing, the flag as it is
FlagBefore(p) ==
    IF EvsOf(p, "read_notifications_enabled") = {} THEN notifications_enabled
    ELSE ev[p][CHOOSE k \in EvsOf(p, "read_notifications_enabled") : TRUE].a

\* C13 (as claimed): a Notifications call that has returned has made the
\* transition it asked for, starting from the flag it found: from Disabled to
\* Enabled it has set the flag and called the notify side effect once and
\* no teardown; from Enabled to Disabled it has cleared the flag and run one
\* teardown and no notify; asking for the current state it has written
\* nothing.  No other call has written the flag.
C13_NotificationStateMachine ==
    \A p \in Procs :
        /\ (pc[p] = "done" /\ cmd[p] # MOBDEV_NOTIFICATIONS) =>
               Count(p, "write_notifications_enabled") = 0
        /\ (pc[p] = "done" /\ cmd[p] = MOBDEV_NOTIFICATIONS /\ argk[p] = "ok") =>
               LET want == kargs[p].enable # 0
                   sends == Count(p, "send_fake_notification_to_userspace")
                   teardowns == Count(p, "teardown")
                   writes == Count(p, "write_notifications_enabled")
               IN  /\ notifications_enabled = want
                   /\ (~FlagBefore(p) /\ want) =>
                          writes = 1 /\ sends = 1 /\ teardowns = 0
                   /\ (FlagBefore(p) /\ ~want) =>
                          writes = 1 /\ sends = 0 /\ teardowns = 1
                   /\ (FlagBefore(p) = want) =>
                          writes = 0 /\ sends = 0 /\ teardowns = 0

\* the positions in devs of the devices that have, in some configuration,
\* some interface and some alternate setting, a class of the allow-list
\* 0x06, 0xE0, 0xFF
AllowListed(devs) ==
    { n \in 1..Len(devs) :
        \E c \in 1..Len(devs[n].config) :
            \E i \in 1..Len(devs[n].config[c]) :
                \E a \in 1..Len(devs[n].config[c][i]) :
                    devs[n].config[c][i][a].cls \in {6, 224, 255} }

\* C14: a Detect call that ran the classifier over the attached devices
\* devs has returned 1 when some device of devs is allow-listed and 0 when
\* none is (also when devs is empty); the devices it examined are those up
\* to and including the first allow-listed one, and none after it.
C14_DetectIffAllowListed ==
    \A p \in Procs :
        (pc[p] = "done" /\ cmd[p] = MOBDEV_DETECT /\ Count(p, "call") = 1) =>
            /\ Count(p, "usb_for_each_dev") = 1
            /\ \A k \in EvsOf(p, "usb_for_each_dev") :
                   LET devs == ev[p][k].a
                       hits == AllowListed(devs)
                       last == IF hits = {} THEN Len(devs)
                               ELSE CHOOSE n \in hits : \A m \in hits : n <= m
                   IN  /\ ret[p] = (IF hits = {} THEN 0 ELSE 1)
                       /\ ev[p][k + 1] =
                              Ev("pr_info_checking",
                                 [n \in 1..last |-> devs[n].vid])

\* C14 witness: Detect has returned 1 with three devices attached, the
\* second of them the first allow-listed one, and the third not examined
C14_Witness ==
    \E p \in Procs :
        /\ pc[p] = "done" /\ cmd[p] = MOBDEV_DETECT /\ ret[p] = 1
        /\ \E k \in EvsOf(p, "usb_for_each_dev") :
               /\ Len(ev[p][k].a) = 3
               /\ AllowListed(ev[p][k].a) = {2, 3}
               /\ Len(ev[p][k + 1].a) = 2

\* p's call has started the helper at most once, not at all when the
\* command is Detect, Tethering or Notifications, and nothing follows the
\* result of the helper but the return of the call
HelperStartedAtMostOnce(p) ==
    /\ Count(p, "call_usermodehelper") <= 1
    /\ cmd[p] \in {MOBDEV_DETECT, MOBDEV_TETHERING, MOBDEV_NOTIFICATIONS} =>
           Count(p, "call_usermodehelper") = 0
    /\ Count(p, "umh_result") <= Count(p, "call_usermodehelper")
    /\ \A k \in EvsOf(p, "umh_result") : k = Len(ev[p]) /\ pc[p] = "done"

\* C15 (as claimed): every call starts the helper at most once, Detect,
\* Tethering and Notifications never start it, and a call whose helper
\* failed (could not be started, or exited with a non-zero status) has
\* returned the failure, -EIO, after that one invocation.
C15_NoAutomaticRetry ==
    \A p \in Procs :
        /\ HelperStartedAtMostOnce(p)
        /\ (pc[p] = "done" /\ argk[p] = "ok"
               /\ \E r \in HelperResults(p) : r # 0) =>
               ret[p] = -EIO /\ Count(p, "call_usermodehelper") = 1

\* the record of p's call came from the caller and its path is empty
EmptyPath(p) ==
    argk[p] = "ok" /\ Unpack(kargs[p].path)[1] = 0

\* C16 (as claimed): a FileTransfer call with an empty path changes no
\* shared state, starts no helper, and returns -EINVAL.
C16_FailsClosedOnEmptyPath ==
    [][\A p \in Procs :
          ( /\ InCall(p) /\ pc[p] # "done" /\ cmd[p] = MOBDEV_FILE_TRANSFER
            /\ EmptyPath(p) ) =>
              /\ UNCHANGED shared
              /\ \A k \in 1..Len(ev'[p]) : ev'[p][k].op # "call_usermodehelper"
              /\ pc'[p] = "done" => ret'[p] = -EINVAL]_vars

\* C17: a Detect call that has returned has not attempted copy_from_user
\* and has not returned -EFAULT, whatever its argument was (null, unreadable
\* or a record); its result is decided by the attached devices alone: 1 or
\* 0 as the classifier finds them, or -EINVAL in the revision whose switch
\* has no case for Detect.
C17_DetectIgnoresArgument ==
    \A p \in Procs :
        (pc[p] = "done" /\ cmd[p] = MOBDEV_DETECT) =>
            /\ Count(p, "copy_from_user") = 0
            /\ ret[p] # -EFAULT
            /\ IF Count(p, "call") = 0 THEN ret[p] = -EINVAL
               ELSE \A k \in EvsOf(p, "usb_for_each_dev") :
                        ret[p] = (IF AllowListed(ev[p][k].a) = {} THEN 0 ELSE 1)

\* C17 witness: Detect called with an unreadable argument has returned 1
C17_Witness ==
    \E p \in Procs :
        /\ pc[p] = "done" /\ cmd[p] = MOBDEV_DETECT /\ argk[p] = "bad"
        /\ ret[p] = 1 /\ Count(p, "usb_for_each_dev") = 1

\* C18: notifications_enabled is false at the start, and a step changes it
\* only when it is a step of a Notifications call, at the assignment of
\* its enable or disable branch; the steps of Detect, FileTransfer,
\* Tethering, CallControl and MediaControl calls and of calls rejected with
\* -EINVAL or -EFAULT leave it as it is.
C18_FlagFrame ==
    /\ ~notifications_enabled
    /\ [][/\ notifications_enabled' # notifications_enabled =>
                \E p \in Procs :
                    /\ cmd[p] = MOBDEV_NOTIFICATIONS
                    /\ pc[p] \in {"n_enable", "n_disable"}
                    /\ pc'[p] # pc[p]
          /\ \A p \in Procs :
                 ( /\ pc'[p] # pc[p]
                   /\ \/ cmd'[p] # MOBDEV_NOTIFICATIONS /\ pc[p] = "idle"
                      \/ cmd[p] # MOBDEV_NOTIFICATIONS /\ pc[p] # "idle"
                      \/ pc'[p] = "done" /\ ret'[p] \in {-EINVAL, -EFAULT} ) =>
                     notifications_enabled' = notifications_enabled]_vars

\* C18 witness: with the flag set by an earlier call, a Tethering call has
\* written an IFF_UP flag and returned 0
C18_Witness ==
    \E p \in Procs :
        /\ pc[p] = "done" /\ cmd[p] = MOBDEV_TETHERING /\ ret[p] = 0
        /\ Count(p, "write_flags") = 1
        /\ notifications_enabled

\* the record of p's call came from the caller and its path is a non-empty
\* string terminated inside the field
ValidPath(p) ==
    /\ argk[p] = "ok"
    /\ Unpack(kargs[p].path)[1] # 0
    /\ NulAt(Unpack(kargs[p].path), 1) # 0

\* C19 (as claimed): a FileTransfer call with a valid argument that has
\* returned has started the helper once and has its result, has not run the
\* classifier, and has not returned -ENODEV, whatever devices are attached.
C19_FileTransferNotGated ==
    \A p \in Procs :
        (pc[p] = "done" /\ cmd[p] = MOBDEV_FILE_TRANSFER /\ ValidPath(p)) =>
            /\ Count(p, "call_usermodehelper") = 1
            /\ Count(p, "umh_result") = 1
            /\ Count(p, "usb_for_each_dev") = 0
            /\ ret[p] # -ENODEV

\* C20: in every invocation of the helper the executable is the one fixed
\* path of the revision and the environment is the fixed pair HOME, PATH;
\* the arguments are decided by the flag of the record alone: CallControl
\* gives KEYCODE_CALL when action = 1 and KEYCODE_ENDCALL otherwise,
\* MediaControl gives KEYCODE_VOLUME_UP when action = 1 and
\* KEYCODE_VOLUME_DOWN otherwise, FileTransfer gives push, the path field,
\* /sdcard/ when enable is non-zero and pull, the path field, /home/user/
\* when enable is 0 (the path string being the field's when it is
\* terminated inside the field).
C20_ArgvChosenByFlag ==
    \A p \in Procs :
        \A k \in EvsOf(p, "call_usermodehelper") :
            LET h == ev[p][k].a
                key(on, off) == << "shell", "input", "keyevent",
                                   IF kargs[p].action = 1 THEN on ELSE off >>
            IN  /\ h.exe = (IF rev = "RevFull" THEN "/tmp/adb_wrapper.sh"
                                              ELSE "/usr/bin/adb")
                /\ h.envp = <<"HOME=/", "PATH=/sbin:/usr/sbin:/bin:/usr/bin">>
                /\ cmd[p] \in HelperCmds
                /\ cmd[p] = MOBDEV_CALL_CONTROL =>
                       h.argv = key("KEYCODE_CALL", "KEYCODE_ENDCALL")
                /\ cmd[p] = MOBDEV_MEDIA_CONTROL =>
                       h.argv = key("KEYCODE_VOLUME_UP", "KEYCODE_VOLUME_DOWN")
                /\ cmd[p] = MOBDEV_FILE_TRANSFER =>
                       /\ h.argv = (IF kargs[p].enable = 0
                                    THEN <<"pull", "args->path", "/home/user/">>
                                    ELSE <<"push", "args->path", "/sdcard/">>)
                       /\ NulAt(Unpack(kargs[p].path), 1) # 0 =>
                              h.path.str = Pack(CStr(Unpack(kargs[p].path)))

\* C20 witness: a FileTransfer call with enable = 2 and path "/a" has run
\* the helper with push
C20_Witness ==
    \E p \in Procs :
        /\ pc[p] = "done" /\ cmd[p] = MOBDEV_FILE_TRANSFER /\ argk[p] = "ok"
        /\ kargs[p].enable = 2
        /\ kargs[p].path = Pack(Pad(<<47, 97>>, PATH_LEN))
        /\ \E k \in EvsOf(p, "call_usermodehelper") :
               ev[p][k].a.argv[1] = "push" /\ ev[p][k].a.path.nul = 3

\* caller p sleeps in call_usermodehelper while its helper runs
WaitsForHelper(p) == pc[p] = "umh_wait"

\* C21: a helper-backed call returns only after its helper has ended; while
\* the helper runs the call has no other way out (no timeout, no
\* cancellation), so a helper that never exits keeps its call from
\* returning; once a helper has ended its call returns, whether or not the
\* helpers of other callers ever end.
C21_HelperBlocksUntilExit ==
    /\ [][\A p \in Procs :
             /\ WaitsForHelper(p) => pc'[p] \in {"umh_wait", "umh_ret"}
             /\ ( /\ pc[p] # "done" /\ pc'[p] = "done"
                  /\ Count(p, "call_usermodehelper") = 1 ) =>
                    /\ pc[p] = "umh_ret"
                    /\ ev[p][Len(ev[p])].op = "helper_exit"
                    /\ ev'[p][Len(ev'[p])] =
                           Ev("umh_result", ev[p][Len(ev[p])].a)]_vars
    /\ \A p \in Procs : (pc[p] = "umh_ret") ~> (pc[p] = "done")

\* C21 witness: one caller still sleeps on its helper while another, whose
\* helper has exited, has its result
C21_Witness ==
    \E p, q \in Procs :
        /\ WaitsForHelper(p)
        /\ pc[q] = "done" /\ Count(q, "umh_result") = 1

\* the positions in devs of the devices that have an alternate setting of
\* class 0x06, or of class 0xFF with subclass 0xFF and protocol 0x00
StrictListed(devs) ==
    { n \in 1..Len(devs) :
        \E c \in 1..Len(devs[n].config) :
            \E i \in 1..Len(devs[n].config[c]) :
                \E a \in 1..Len(devs[n].config[c][i]) :
                    LET d == devs[n].config[c][i][a]
                    IN  d.cls = 6 \/ (d.cls = 255 /\ d.sub = 255 /\ d.proto = 0) }

\* the revisions whose FileTransfer runs a classifier first
GatedRevs == {"RevAdb", "RevMtp"}

\* what the classifier of the revision's FileTransfer reports for devs
GateFound(devs) ==
    IF rev = "RevAdb" THEN AllowListed(devs) # {} ELSE StrictListed(devs) # {}

\* C22: in the detection-gated revisions, every start of the helper by a
\* FileTransfer call comes after a classifier run of the same call that
\* reported found; a call whose classifier reported not found has returned
\* -ENODEV without starting the helper; and no step of the call changes the
\* shared state.
C22_GatedFileTransfer ==
    /\ [](\A p \in Procs :
             (rev \in GatedRevs /\ cmd[p] = MOBDEV_FILE_TRANSFER) =>
                 /\ \A k \in EvsOf(p, "call_usermodehelper") :
                        \E j \in EvsOf(p, "usb_for_each_dev") :
                            j < k /\ GateFound(ev[p][j].a)
                 /\ \A j \in EvsOf(p, "usb_for_each_dev") :
                        (pc[p] = "done" /\ ~GateFound(ev[p][j].a)) =>
                            /\ ret[p] = -ENODEV
                            /\ Count(p, "call_usermodehelper") = 0
                 /\ (pc[p] = "done" /\ ret[p] # -EFAULT) =>
                        Count(p, "usb_for_each_dev") = 1)
    /\ [][\A p \in Procs :
             ( /\ rev \in GatedRevs /\ cmd[p] = MOBDEV_FILE_TRANSFER
               /\ InCall(p) /\ pc[p] # "done" ) => UNCHANGED shared]_vars

\* C22 witness: FileTransfer of "/a" with only an audio device attached has
\* returned -ENODEV
C22_Witness ==
    \E p \in Procs :
        /\ rev \in GatedRevs /\ pc[p] = "done" /\ cmd[p] = MOBDEV_FILE_TRANSFER
        /\ ValidPath(p) /\ ret[p] = -ENODEV
        /\ \E j \in EvsOf(p, "usb_for_each_dev") : Len(ev[p][j].a) = 1

\* the ifname field of a record cut at its first NUL or at 31 bytes
Truncated31(field) ==
    LET str == CStr(Unpack(field))
    IN  SubSeq(str, 1, IF Len(str) < IFNAME_LEN - 1 THEN Len(str)
                       ELSE IFNAME_LEN - 1)

\* C23 (as claimed): whenever a Tethering call on a caller-supplied record
\* has looked the name up, the name it passed had its NUL inside the
\* 32-byte local buffer (so the lookup read no byte past it) and was the
\* record's ifname cut at its first NUL or at 31 bytes.
C23_IfnameTerminated ==
    \A p \in Procs :
        \A k \in EvsOf(p, "dev_get_by_name") :
            argk[p] = "ok" =>
                /\ ev[p][k].a.nul \in 1..IFNAME_LEN
                /\ CStr(Unpack(ifname[p])) = Truncated31(kargs[p].ifname)

\* p's call is a Tethering call that has requested the rtnl mutex, or a
\* Notifications call, and has not returned
TethOrNotifRunning(p) ==
    /\ InCall(p) /\ pc[p] \notin {"done", "tethering"}
    /\ cmd[p] \in {MOBDEV_TETHERING, MOBDEV_NOTIFICATIONS}

\* C24: a call that waits for its helper does not hold the rtnl mutex and
\* never took it; a Tethering call never starts a helper; the helper is
\* started in a step in which its caller does not hold the mutex; and
\* under fair scheduling of the Tethering and Notifications calls, with no
\* assumption that a helper ever exits, every Tethering call that has
\* requested the mutex and every Notifications call returns.
C24_HelperOutsideLock ==
    /\ [](\A p \in Procs :
             /\ pc[p] \in {"umh_wait", "umh_ret"} =>
                    rtnl # p /\ Count(p, "rtnl_lock") = 0
             /\ cmd[p] = MOBDEV_TETHERING => Count(p, "call_usermodehelper") = 0)
    /\ [][\A p \in Procs :
             Count(p, "call_usermodehelper")' > Count(p, "call_usermodehelper")
                 => rtnl # p /\ rtnl' # p]_vars
    /\ \A q \in Procs : TethOrNotifRunning(q) ~> (pc[q] = "done")

\* C24 witness: while caller 1 waits for its helper another caller holds
\* the rtnl mutex and is about to write the flag
C24_Witness ==
    \E p, q \in Procs :
        /\ WaitsForHelper(p) /\ cmd[p] = MOBDEV_FILE_TRANSFER
        /\ pc[q] = "t_flip" /\ rtnl = q

\* C25: under fair scheduling every Tethering call that requests the rtnl
\* mutex returns, whatever the other callers do, and the only step that
\* takes it on from the request is the one that acquires the mutex; a call
\* takes the mutex at most once, and between rtnl_lock and rtnl_unlock it
\* logs at most four more events (lookup, read, message, write).
C25_TetheringDeadlockFree ==
    /\ [](\A p \in Procs :
             /\ Count(p, "rtnl_lock") <= 1
             /\ InSection(p) =>
                    \A k \in EvsOf(p, "rtnl_lock") : Len(ev[p]) - k <= 4)
    /\ [][\A p \in Procs :
             pc[p] = "t_lock" /\ pc'[p] # "t_lock" =>
                 rtnl = 0 /\ rtnl' = p /\ pc'[p] = "t_lookup"]_vars
    /\ \A p \in Procs : (pc[p] = "t_lock") ~> (pc[p] = "done")

\* C25 witness: a caller waits for the mutex while another caller holds it
\* and is about to release it
C25_Witness ==
    \E p, q \in Procs :
        /\ p # q
        /\ pc[p] = "t_lock" /\ rtnl = q /\ pc[q] = "t_put"

\* the registered device the C string in the ifname field names, 0 when none
NamedDev(field) == dev_get_by_name(field)

\* C26: with one caller, a Tethering call that has returned 0 resolved the
\* name in its ifname field and the IFF_UP flag of that interface is the
\* requested value (up when enable is non-zero, down when it is 0); and
\* between calls the flag of every interface is what the last successful
\* Tethering call that named it asked for, or down, its value at the start,
\* when no call did.
C26_TetheringPostcondition ==
    /\ \A p \in Procs :
           (pc[p] = "done" /\ cmd[p] = MOBDEV_TETHERING /\ ret[p] = 0) =>
               /\ NamedDev(kargs[p].ifname) # 0
               /\ ndev[p] = NamedDev(kargs[p].ifname)
               /\ flags[ndev[p]] = (kargs[p].enable # 0)
    /\ (\A p \in Procs : pc[p] = "idle") =>
           \A d \in Devs : flags[d] = prev.want[d]

\* C26 witness: between calls, "usb0" is down after Tethering calls that
\* brought it up and then down again
C26_Witness ==
    /\ \A p \in Procs : pc[p] = "idle"
    /\ prev.ndev = 1 /\ ~prev.up /\ prev.flips = 1 /\ ~flags[1]

\* C27: a step of a Tethering call changes no IFF_UP flag but that of the
\* interface the name in its ifname field resolves to, leaves
\* notifications_enabled as it is and starts no helper process; when the
\* call has returned every reference it took is given back and the rtnl
\* mutex is free.  (The registered interfaces are DevNames: no revision
\* registers or unregisters an interface.)
C27_TetheringFrame ==
    /\ [](\A p \in Procs :
             (InCall(p) /\ cmd[p] = MOBDEV_TETHERING) =>
                 /\ Count(p, "call_usermodehelper") = 0
                 /\ pc[p] \notin {"umh_wait", "umh_ret"}
                 /\ pc[p] = "done" =>
                        rtnl = 0 /\ \A d \in Devs : refcnt[d] = 0)
    /\ [][\A p \in Procs :
             (InCall(p) /\ cmd[p] = MOBDEV_TETHERING /\ pc'[p] # pc[p]) =>
                 /\ \A d \in Devs :
                        flags'[d] # flags[d] => d = NamedDev(kargs[p].ifname)
                 /\ notifications_enabled' = notifications_enabled]_vars

\* C27 witness: a Tethering call has brought "usb0" down and returned 0
\* while "eth0" is up and notifications_enabled is set
C27_Witness ==
    \E p \in Procs :
        /\ pc[p] = "done" /\ cmd[p] = MOBDEV_TETHERING /\ ret[p] = 0
        /\ ndev[p] = 1 /\ Count(p, "write_flags") = 1
        /\ ~flags[1] /\ flags[2] /\ notifications_enabled

\* C28: for the attached devices devs a classifier ran over,
\* mobdev_detect_mtp(devs) is 1 when some alternate setting of some
\* interface of some configuration of some device has class 0x06, or class
\* 0xFF with subclass 0xFF and protocol 0x00, and 0 otherwise; whenever it
\* is 1 so is mobdev_detect_phone(devs); and a FileTransfer call of the
\* revision that uses it has returned 0 when some device has such an
\* alternate setting and -ENODEV when none has.
C28_StrictMtpDetector ==
    \A p \in Procs :
        \A k \in EvsOf(p, "usb_for_each_dev") :
            LET devs == ev[p][k].a
            IN  /\ mobdev_detect_mtp(devs) =
                       (IF StrictListed(devs) # {} THEN 1 ELSE 0)
                /\ mobdev_detect_mtp(devs) = 1 => mobdev_detect_phone(devs) = 1
                /\ StrictListed(devs) \subseteq AllowListed(devs)
                /\ ( /\ rev = "RevMtp" /\ cmd[p] = MOBDEV_FILE_TRANSFER
                     /\ pc[p] = "done" ) =>
                        ret[p] = (IF StrictListed(devs) # {} THEN 0
                                  ELSE -ENODEV)

\* C28 witness: with only an RNDIS phone (class 0xE0) attached, which the
\* phone-like classifier accepts, a FileTransfer call of the revision with
\* the strict detector has returned -ENODEV
C28_Witness ==
    \E p \in Procs :
        /\ rev = "RevMtp" /\ cmd[p] = MOBDEV_FILE_TRANSFER /\ pc[p] = "done"
        /\ ret[p] = -ENODEV /\ Count(p, "call_usermodehelper") = 0
        /\ \E k \in EvsOf(p, "usb_for_each_dev") :
               /\ ev[p][k].a = <<RndisDev>>
               /\ mobdev_detect_phone(ev[p][k].a) = 1

====
